---------------------------- MODULE Spec2Model ----------------------------
(***************************************************************************)
(* Model of src/geometry/point.rs: the generic 3D Point<T>, its operator   *)
(* impls, its ordering, and the GeometryOperations trait, instantiated at  *)
(* T = i32 (impl PointType for i32, impl GeometryOperations<i32>).         *)
(*                                                                         *)
(* The library is a set of pure functions plus four compound assignments   *)
(* that mutate their receiver.  A state records the receiver `self`, the   *)
(* last call made (op), its arguments (args, k), and how the call ended:   *)
(* a returned value (res) or a panic (panicked).                           *)
(*                                                                         *)
(* i32 arithmetic keeps its width: an operation whose exact result leaves  *)
(* [I32Min, I32Max] panics when the build has overflow checks (debug       *)
(* profile) and wraps modulo 2^32 otherwise (release profile).  Division   *)
(* by zero panics in every profile.  f64 values are modelled exactly: all  *)
(* values that arise are multiples of 0.5 far below 2^53.                  *)
(***************************************************************************)
EXTENDS Integers, Sequences, FiniteSets, TLC

VARIABLES overflow_checks, self, op, args, k, res, panicked

vars == <<overflow_checks, self, op, args, k, res, panicked>>

(***************************************************************************)
(* Bounds of the model.                                                    *)
(***************************************************************************)
MaxCoord == 1       \* receivers, operands: coordinates in -MaxCoord..MaxCoord
MaxScalar == 2      \* scalar operands range over -MaxScalar..MaxScalar
MaxXY == 1          \* geometry arguments: x and y range over -1..MaxXY
MaxZ == 1           \* geometry arguments: z ranges over 0..MaxZ
MaxPolyLen == 3     \* polygons of 0..MaxPolyLen vertices

(***************************************************************************)
(* The scalar type i32.                                                    *)
(***************************************************************************)
I32Max == 2147483647
I32Min == -I32Max - 1

zero == 0

Abs(n) == IF n < 0 THEN -n ELSE n

\* a + b leaves the i32 range
AddOvf(a, b) ==
    \/ (b > 0 /\ a > I32Max - b)
    \/ (b < 0 /\ a < I32Min - b)

\* a + b modulo 2^32, as a signed 32-bit value
WrapAdd(a, b) ==
    IF b > 0 /\ a > I32Max - b THEN (a + I32Min) + (b + I32Min)
    ELSE IF b < 0 /\ a < I32Min - b THEN (a - I32Min) + (b - I32Min)
    ELSE a + b

\* a - b leaves the i32 range
SubOvf(a, b) ==
    \/ (b < 0 /\ a > I32Max + b)
    \/ (b > 0 /\ a < I32Min + b)

\* a - b modulo 2^32, as a signed 32-bit value
WrapSub(a, b) ==
    IF b < 0 /\ a > I32Max + b
      THEN IF b = I32Min THEN a + I32Min
                         ELSE (a + I32Min) + ((-b) + I32Min)
    ELSE IF b > 0 /\ a < I32Min + b THEN (a - I32Min) - (b + I32Min)
    ELSE a - b

\* the four bytes of the two's complement representation, least first
Bytes(v) ==
    <<v % 256, (v \div 256) % 256, (v \div 65536) % 256,
      (v \div 16777216) % 256>>

\* the signed value of four two's complement bytes
FromBytes(r) ==
    (IF r[4] >= 128 THEN r[4] - 256 ELSE r[4]) * 16777216
      + r[3] * 65536 + r[2] * 256 + r[1]

\* a * b modulo 2^32, as a signed 32-bit value (schoolbook on bytes)
WrapMul(a, b) ==
    LET x == Bytes(a)
        y == Bytes(b)
        c1 == x[1] * y[1]
        c2 == x[1] * y[2] + x[2] * y[1] + (c1 \div 256)
        c3 == x[1] * y[3] + x[2] * y[2] + x[3] * y[1] + (c2 \div 256)
        c4 == x[1] * y[4] + x[2] * y[3] + x[3] * y[2] + x[4] * y[1]
                + (c3 \div 256)
    IN  FromBytes(<<c1 % 256, c2 % 256, c3 % 256, c4 % 256>>)

\* a * b leaves the i32 range
MulOvf(a, b) ==
    IF a = 0 \/ b = 0 THEN FALSE
    ELSE IF a = I32Min THEN b # 1
    ELSE IF b = I32Min THEN a # 1
    ELSE IF (a < 0) = (b < 0)
      THEN Abs(a) > I32Max \div Abs(b)
      ELSE Abs(a) - (IF I32Max % Abs(b) = Abs(b) - 1 THEN 1 ELSE 0)
             > I32Max \div Abs(b)

\* a / b panics: division by zero, or the one overflowing quotient
DivPanics(a, b) == b = 0 \/ (a = I32Min /\ b = -1)

\* slip: the quotient rounded toward negative infinity
FloorDiv(a, b) == IF b > 0 THEN a \div b ELSE (-a) \div (-b)

\* a / b for b # 0: the quotient truncated toward zero
TruncDiv(a, b) ==
    IF b > 0
      THEN IF a < 0 /\ a % b # 0 THEN (a \div b) + 1 ELSE a \div b
    ELSE IF b = I32Min THEN (IF a = I32Min THEN 1 ELSE 0)
    ELSE IF a = I32Min /\ b = -1 THEN I32Min
    ELSE IF a < 0 /\ a % (-b) # 0 THEN -((a \div (-b)) + 1)
                                  ELSE -(a \div (-b))

(***************************************************************************)
(* f64 values.  Every f64 that the modelled functions produce from i32     *)
(* inputs is a multiple of 0.5 of magnitude below 2^36, hence exact.  A    *)
(* value is a sign bit (which distinguishes +0.0 from -0.0) and a          *)
(* magnitude counted in halves, kept as two limbs: hi * 65536 + lo.        *)
(***************************************************************************)
F64(neg, hi, lo) == [neg |-> neg, hi |-> hi, lo |-> lo]

F64Zero == F64(FALSE, 0, 0)       \* +0.0
F64One == F64(FALSE, 0, 2)        \* 1.0

\* `v as f64` for an i32 v
FromI32(v) ==
    IF v >= 0 THEN F64(FALSE, v \div 32768, 2 * (v % 32768))
    ELSE LET q == v \div 32768
             r == v % 32768
         IN  IF r = 0 THEN F64(TRUE, -q, 0)
                      ELSE F64(TRUE, -q - 1, 2 * (32768 - r))

MagEq(a, b) == a.hi = b.hi /\ a.lo = b.lo

MagLess(a, b) == a.hi < b.hi \/ (a.hi = b.hi /\ a.lo < b.lo)

\* IEEE comparison a == b: the two zeros are equal
F64Eq(a, b) ==
    \/ (MagEq(a, b) /\ a.neg = b.neg)
    \/ (MagEq(a, F64Zero) /\ MagEq(b, F64Zero))

F64Neg(a) == F64(~a.neg, a.hi, a.lo)

\* a + b (exact; a zero sum of opposite signs is +0.0)
F64Add(a, b) ==
    IF a.neg = b.neg
      THEN F64(a.neg, a.hi + b.hi + ((a.lo + b.lo) \div 65536),
               (a.lo + b.lo) % 65536)
    ELSE IF MagEq(a, b) THEN F64Zero
    ELSE LET big == IF MagLess(a, b) THEN b ELSE a
             small == IF MagLess(a, b) THEN a ELSE b
             borrow == IF big.lo < small.lo THEN 1 ELSE 0
         IN  F64(big.neg, big.hi - small.hi - borrow,
                 (big.lo + 65536 * borrow) - small.lo)

\* a - b
F64Sub(a, b) == F64Add(a, F64Neg(b))

\* a * 0.5 and a / 2.0, for an integer-valued a (exact)
F64Half(a) == F64(a.neg, a.hi \div 2, (a.lo \div 2) + 32768 * (a.hi % 2))

\* f64::abs
F64Abs(a) == F64(FALSE, a.hi, a.lo)

\* num_traits::signum on f64: 1.0 for positive values and +0.0, -1.0 for
\* negative values and -0.0 (NaN does not arise from i32 inputs)
signum(a) == IF a.neg THEN F64Neg(F64One) ELSE F64One

\* `a as i8`: truncation toward zero, saturating at the i8 range
AsI8(a) ==
    IF a.hi > 0 THEN (IF a.neg THEN -128 ELSE 127)
    ELSE IF a.neg THEN (IF a.lo \div 2 > 128 THEN -128 ELSE -(a.lo \div 2))
    ELSE (IF a.lo \div 2 > 127 THEN 127 ELSE a.lo \div 2)

(***************************************************************************)
(* Point<i32>: construction and the operator impls.  Each function comes   *)
(* with the predicate telling whether one of its scalar operations         *)
(* overflows (…Ovf) or panics in every build profile (…Panics).            *)
(***************************************************************************)
new(x, y, z) == [x |-> x, y |-> y, z |-> z]

default == new(zero, zero, zero)

add(p, rhs) ==
    new(WrapAdd(p.x, rhs.x), WrapAdd(p.y, rhs.y), WrapAdd(p.z, rhs.z))

addOvf(p, rhs) ==
    AddOvf(p.x, rhs.x) \/ AddOvf(p.y, rhs.y) \/ AddOvf(p.z, rhs.z)

sub(p, rhs) ==
    new(WrapSub(p.x, rhs.x), WrapSub(p.y, rhs.y), WrapSub(p.z, rhs.z))

subOvf(p, rhs) ==
    SubOvf(p.x, rhs.x) \/ SubOvf(p.y, rhs.y) \/ SubOvf(p.z, rhs.z)

mul(p, rhs) == new(WrapMul(p.x, rhs), WrapMul(p.y, rhs), WrapMul(p.z, rhs))

mulOvf(p, rhs) == MulOvf(p.x, rhs) \/ MulOvf(p.y, rhs) \/ MulOvf(p.z, rhs)

div(p, rhs) ==
    new(TruncDiv(p.x, rhs), TruncDiv(p.y, rhs), TruncDiv(p.z, rhs))

divPanics(p, rhs) ==
    DivPanics(p.x, rhs) \/ DivPanics(p.y, rhs) \/ DivPanics(p.z, rhs)

eq(p, other) == p.x = other.x /\ p.y = other.y /\ p.z = other.z

\* slip: the tie on x and y is not broken by z
ltIgnoresZ(p, rhs) ==
    IF p.x = rhs.x THEN p.y < rhs.y ELSE p.x < rhs.x

\* slip: y is compared before x
ltYFirst(p, rhs) ==
    IF p.y = rhs.y
      THEN IF p.x = rhs.x THEN p.z < rhs.z ELSE p.x < rhs.x
      ELSE p.y < rhs.y

lt(p, rhs) ==
    IF p.x = rhs.x
      THEN IF p.y = rhs.y THEN p.z < rhs.z ELSE p.y < rhs.y
      ELSE p.x < rhs.x

\* slip: the second branch tests other < self
partial_cmpSwapped(p, other) ==
    IF eq(p, other) THEN "Equal"
    ELSE IF lt(other, p) THEN "Less"
    ELSE IF ~(~lt(p, other)) THEN "panic"
    ELSE "Greater"

\* partial_cmp: the Ordering inside Some(...), or "panic" when the
\* assertion of the last branch fails
partial_cmp(p, other) ==
    IF eq(p, other) THEN "Equal"
    ELSE IF lt(p, other) THEN "Less"
    ELSE IF ~(~lt(p, other)) THEN "panic"
    ELSE "Greater"

\* gt, the provided method of PartialOrd: partial_cmp is Some(Greater)
gt(p, other) == partial_cmp(p, other) = "Greater"

(***************************************************************************)
(* Geometry operations.                                                    *)
(***************************************************************************)
dot(a, b) ==
    WrapAdd(WrapAdd(WrapMul(a.x, b.x), WrapMul(a.y, b.y)), WrapMul(a.z, b.z))

dotOvf(a, b) ==
    \/ MulOvf(a.x, b.x) \/ MulOvf(a.y, b.y) \/ MulOvf(a.z, b.z)
    \/ AddOvf(WrapMul(a.x, b.x), WrapMul(a.y, b.y))
    \/ AddOvf(WrapAdd(WrapMul(a.x, b.x), WrapMul(a.y, b.y)),
              WrapMul(a.z, b.z))

\* slip: the operands of the y component are exchanged
crossSignSlip(a, b) ==
    new(WrapSub(WrapMul(a.y, b.z), WrapMul(a.z, b.y)),
        WrapSub(WrapMul(a.x, b.z), WrapMul(a.z, b.x)),
        WrapSub(WrapMul(a.x, b.y), WrapMul(a.y, b.x)))

cross(a, b) ==
    LET x0 == a.x
        y0 == a.y
        z0 == a.z
        x1 == b.x
        y1 == b.y
        z1 == b.z
    IN  new(WrapSub(WrapMul(y0, z1), WrapMul(z0, y1)),
            WrapSub(WrapMul(z0, x1), WrapMul(x0, z1)),
            WrapSub(WrapMul(x0, y1), WrapMul(y0, x1)))

crossOvf(a, b) ==
    \/ MulOvf(a.y, b.z) \/ MulOvf(a.z, b.y)
    \/ SubOvf(WrapMul(a.y, b.z), WrapMul(a.z, b.y))
    \/ MulOvf(a.z, b.x) \/ MulOvf(a.x, b.z)
    \/ SubOvf(WrapMul(a.z, b.x), WrapMul(a.x, b.z))
    \/ MulOvf(a.x, b.y) \/ MulOvf(a.y, b.x)
    \/ SubOvf(WrapMul(a.x, b.y), WrapMul(a.y, b.x))

signed_area_of_parallelogram(a, b, c) ==
    FromI32(cross(sub(b, a), sub(c, b)).z)

signed_area_of_parallelogramOvf(a, b, c) ==
    subOvf(b, a) \/ subOvf(c, b) \/ crossOvf(sub(b, a), sub(c, b))

\* slip: the absolute value is not taken
area_of_triangleNoAbs(a, b, c) ==
    F64Half(signed_area_of_parallelogram(a, b, c))

area_of_triangle(a, b, c) ==
    F64Abs(F64Half(signed_area_of_parallelogram(a, b, c)))

direction(a, b, c) == AsI8(signum(signed_area_of_parallelogram(a, b, c)))

\* slip: the y coordinates are subtracted instead of added
PolyTermYDifference(a, i) ==
    LET n == Len(a)
        nxt == a[((i + 1) % n) + 1]
        cur == a[i + 1]
    IN  WrapMul(WrapSub(nxt.x, cur.x), WrapSub(nxt.y, cur.y))

\* the i32 term of iteration i (0-based) of the loop of area_of_polygon
PolyTerm(a, i) ==
    LET n == Len(a)
        nxt == a[((i + 1) % n) + 1]
        cur == a[i + 1]
    IN  WrapMul(WrapSub(nxt.x, cur.x), WrapAdd(nxt.y, cur.y))

PolyTermOvf(a, i) ==
    LET n == Len(a)
        nxt == a[((i + 1) % n) + 1]
        cur == a[i + 1]
    IN  \/ SubOvf(nxt.x, cur.x)
        \/ AddOvf(nxt.y, cur.y)
        \/ MulOvf(WrapSub(nxt.x, cur.x), WrapAdd(nxt.y, cur.y))

\* the value of `area` after the iterations 0 .. i-1 of the loop
RECURSIVE PolyLoop(_, _)
PolyLoop(a, i) ==
    IF i = 0 THEN F64Zero
    ELSE F64Sub(PolyLoop(a, i - 1), FromI32(PolyTerm(a, i - 1)))

area_of_polygon(a) == F64Abs(F64Half(PolyLoop(a, Len(a))))

area_of_polygonOvf(a) == \E i \in 0 .. Len(a) - 1 : PolyTermOvf(a, i)

(***************************************************************************)
(* Inputs.                                                                 *)
(***************************************************************************)
Cube ==
    {new(x, y, z) : x \in -MaxCoord .. MaxCoord, y \in -MaxCoord .. MaxCoord,
                    z \in -MaxCoord .. MaxCoord}

\* the grid the geometry arguments are drawn from
XYRange == -1 .. MaxXY

ZRange == 0 .. MaxZ

Grid == {new(x, y, z) : x \in XYRange, y \in XYRange, z \in ZRange}

\* polygon vertices: area_of_polygon never reads z
FlatGrid == {new(x, y, 0) : x \in XYRange, y \in XYRange}

\* the two points of tests::check_point_operations
TestP1 == new(20, 12, 30)
TestP2 == new(45, -100, -55)

\* receivers and operands of the operator impls
Points == Cube \cup {TestP1, TestP2}

\* scalar operands; 3 is the second divisor of the test
Scalars == (-MaxScalar .. MaxScalar) \cup {3}

\* arguments of the geometry functions: the grid and the 3-4-5 triangle
GeomPoints == Grid \cup {new(4, 0, 0), new(0, 3, 0)}

UnitSquare == <<new(0, 0, 0), new(1, 0, 0), new(1, 1, 0), new(0, 1, 0)>>

\* short vertex lists whose shoelace terms leave the i32 range
EdgePolygons ==
    { <<new(0, 1073741824, 0)>>,
      <<new(0, 0, 0), new(65536, 32768, 0)>>,
      <<new(I32Min, 0, 0), new(I32Max, 1, 0)>> }

\* short vertex lists with large coordinates whose terms stay in range
LargePolygons ==
    { <<new(I32Max, 1073741823, I32Min)>>,
      <<new(0, 0, 0), new(46340, 46340, 0)>>,
      <<new(-32768, -65535, 7), new(0, 0, 0)>> }

Polygons ==
    UNION {[1 .. n -> FlatGrid] : n \in 0 .. MaxPolyLen}
      \cup {UnitSquare} \cup EdgePolygons \cup LargePolygons

NoValue == "none"
Unit == "()"

(***************************************************************************)
(* State machine.  A call is made when no call is pending (op = "none");   *)
(* it either returns a value or panics.  Return hands the value to the     *)
(* caller; a panic ends the run.                                           *)
(***************************************************************************)
\* the call `name` with point arguments a and scalar argument s returns val,
\* unless it panics
Call(name, a, s, panics, val) ==
    /\ op' = name
    /\ args' = a
    /\ k' = s
    /\ panicked' = panics
    /\ res' = IF panics THEN NoValue ELSE val
    /\ UNCHANGED overflow_checks

\* no call is pending and no panic has ended the run
CanCall == op = "none" /\ ~panicked

\* an overflowing scalar operation panics under overflow checks
Checked(ovf) == overflow_checks /\ ovf

Add ==
    /\ CanCall
    /\ \E rhs \in Points :
            /\ Call("add", <<rhs>>, 0, Checked(addOvf(self, rhs)), add(self, rhs))
            /\ UNCHANGED self

Sub ==
    /\ CanCall
    /\ \E rhs \in Points :
            /\ Call("sub", <<rhs>>, 0, Checked(subOvf(self, rhs)), sub(self, rhs))
            /\ UNCHANGED self

Mul ==
    /\ CanCall
    /\ \E rhs \in Scalars :
            /\ Call("mul", <<>>, rhs, Checked(mulOvf(self, rhs)), mul(self, rhs))
            /\ UNCHANGED self

Div ==
    /\ CanCall
    /\ \E rhs \in Scalars :
            /\ Call("div", <<>>, rhs, divPanics(self, rhs), div(self, rhs))
            /\ UNCHANGED self

\* *self = *self + rhs: the assignment happens only if the sum returns
AddAssign ==
    /\ CanCall
    /\ \E rhs \in Points :
            /\ add(self, rhs) \in Points
            /\ Call("add_assign", <<rhs>>, 0, Checked(addOvf(self, rhs)), Unit)
            /\ self' = IF Checked(addOvf(self, rhs)) THEN self
                                                     ELSE add(self, rhs)

SubAssign ==
    /\ CanCall
    /\ \E rhs \in Points :
            /\ sub(self, rhs) \in Points
            /\ Call("sub_assign", <<rhs>>, 0, Checked(subOvf(self, rhs)), Unit)
            /\ self' = IF Checked(subOvf(self, rhs)) THEN self
                                                     ELSE sub(self, rhs)

MulAssign ==
    /\ CanCall
    /\ \E rhs \in Scalars :
            /\ mul(self, rhs) \in Points
            /\ Call("mul_assign", <<>>, rhs, Checked(mulOvf(self, rhs)), Unit)
            /\ self' = IF Checked(mulOvf(self, rhs)) THEN self
                                                     ELSE mul(self, rhs)

\* slip: a zero divisor is skipped instead of trapping
DivAssignSkipsZero ==
    /\ CanCall
    /\ \E rhs \in Scalars :
            /\ IF rhs = 0 THEN TRUE ELSE div(self, rhs) \in Points
            /\ Call("div_assign", <<>>, rhs, FALSE, Unit)
            /\ self' = IF rhs = 0 THEN self ELSE div(self, rhs)

DivAssign ==
    /\ CanCall
    /\ \E rhs \in Scalars :
            /\ IF divPanics(self, rhs) THEN TRUE ELSE div(self, rhs) \in Points
            /\ Call("div_assign", <<>>, rhs, divPanics(self, rhs), Unit)
            /\ self' = IF divPanics(self, rhs) THEN self ELSE div(self, rhs)

Eq ==
    /\ CanCall
    /\ \E other \in Points :
            /\ Call("eq", <<other>>, 0, FALSE, eq(self, other))
            /\ UNCHANGED self

Lt ==
    /\ CanCall
    /\ \E rhs \in Points :
            /\ Call("lt", <<rhs>>, 0, FALSE, lt(self, rhs))
            /\ UNCHANGED self

PartialCmp ==
    /\ CanCall
    /\ \E other \in Points :
            /\ Call("partial_cmp", <<other>>, 0,
                    partial_cmp(self, other) = "panic", partial_cmp(self, other))
            /\ UNCHANGED self

\* the caller takes the returned value; the next call can be made
Return ==
    /\ op # "none"
    /\ ~panicked
    /\ op' = "none"
    /\ args' = <<>>
    /\ k' = 0
    /\ res' = NoValue
    /\ UNCHANGED <<overflow_checks, self, panicked>>

Dot ==
    /\ CanCall
    /\ \E a \in GeomPoints, b \in GeomPoints :
            /\ Call("dot", <<a, b>>, 0, Checked(dotOvf(a, b)), dot(a, b))
            /\ UNCHANGED self

Cross ==
    /\ CanCall
    /\ \E a \in GeomPoints, b \in GeomPoints :
            /\ Call("cross", <<a, b>>, 0, Checked(crossOvf(a, b)), cross(a, b))
            /\ UNCHANGED self

SignedAreaOfParallelogram ==
    /\ CanCall
    /\ \E a \in GeomPoints, b \in GeomPoints, c \in GeomPoints :
            /\ Call("signed_area_of_parallelogram", <<a, b, c>>, 0,
                    Checked(signed_area_of_parallelogramOvf(a, b, c)),
                    signed_area_of_parallelogram(a, b, c))
            /\ UNCHANGED self

AreaOfTriangle ==
    /\ CanCall
    /\ \E a \in GeomPoints, b \in GeomPoints, c \in GeomPoints :
            /\ Call("area_of_triangle", <<a, b, c>>, 0,
                    Checked(signed_area_of_parallelogramOvf(a, b, c)),
                    area_of_triangle(a, b, c))
            /\ UNCHANGED self

Direction ==
    /\ CanCall
    /\ \E a \in GeomPoints, b \in GeomPoints, c \in GeomPoints :
            /\ Call("direction", <<a, b, c>>, 0,
                    Checked(signed_area_of_parallelogramOvf(a, b, c)),
                    direction(a, b, c))
            /\ UNCHANGED self

AreaOfPolygon ==
    /\ CanCall
    /\ \E a \in Polygons :
            /\ Call("area_of_polygon", a, 0, Checked(area_of_polygonOvf(a)),
                    area_of_polygon(a))
            /\ UNCHANGED self

Idle ==
    /\ overflow_checks \in BOOLEAN
    /\ op = "none"
    /\ args = <<>>
    /\ k = 0
    /\ res = NoValue
    /\ panicked = FALSE

\* the Point type: operators, compound assignments, equality and ordering
\* applied to a receiver
Init == Idle /\ self \in Points

Next ==
    \/ Add \/ Sub \/ Mul \/ Div
    \/ AddAssign \/ SubAssign \/ MulAssign \/ DivAssign
    \/ Eq \/ Lt \/ PartialCmp
    \/ Return

Spec == Init /\ [][Next]_vars

\* the geometry functions, which take all their points as arguments
InitGeometry == Idle /\ self = default

NextGeometry ==
    \/ Dot \/ Cross
    \/ SignedAreaOfParallelogram \/ AreaOfTriangle \/ Direction
    \/ AreaOfPolygon
    \/ Return

SpecGeometry == InitGeometry /\ [][NextGeometry]_vars

(***************************************************************************)
(* Properties.                                                             *)
(***************************************************************************)
\* a, b, c lie on one line of 3-space (a = b, b = c, a = c included):
\* (b - a) x (c - a) is the zero vector, in exact integer arithmetic
Collinear(a, b, c) ==
    LET ux == b.x - a.x
        uy == b.y - a.y
        uz == b.z - a.z
        vx == c.x - a.x
        vy == c.y - a.y
        vz == c.z - a.z
    IN  /\ uy * vz - uz * vy = 0
        /\ uz * vx - ux * vz = 0
        /\ ux * vy - uy * vx = 0

\* C1: direction(a, b, c) returns 0 for every three collinear points,
\* the degenerate cases a == b, b == c, a == c included.
C1_CollinearDirectionIsZero ==
    (op = "direction" /\ ~panicked /\ Collinear(args[1], args[2], args[3]))
        => res = 0

Reverse(o) ==
    IF o = "Less" THEN "Greater" ELSE IF o = "Greater" THEN "Less" ELSE o

ExactlyOne(x, y, z) ==
    (x /\ ~y /\ ~z) \/ (~x /\ y /\ ~z) \/ (~x /\ ~y /\ z)

\* C2: the ordering is a strict total order: exactly one of p < q, p == q,
\* p > q holds, p == p holds, partial_cmp(p, q) is Less, Equal or Greater in
\* exactly the corresponding case, and it is the reverse of partial_cmp(q, p).
C2_StrictTotalOrder ==
    op = "partial_cmp" =>
        LET p == self
            q == args[1]
        IN  /\ ExactlyOne(lt(p, q), eq(p, q), lt(q, p))
            /\ ExactlyOne(lt(p, q), eq(p, q), gt(p, q))
            /\ eq(p, p)
            /\ (res = "Less") = lt(p, q)
            /\ (res = "Equal") = eq(p, q)
            /\ (res = "Greater") = lt(q, p)
            /\ res = Reverse(partial_cmp(q, p))

C2_Witness ==
    /\ op = "partial_cmp"
    /\ res = "Less"
    /\ partial_cmp(args[1], self) = "Greater"

LexLess(p, q) ==
    \/ p.x < q.x
    \/ (p.x = q.x /\ p.y < q.y)
    \/ (p.x = q.x /\ p.y = q.y /\ p.z < q.z)

\* C3: p < q iff p.x < q.x, or p.x = q.x and p.y < q.y, or p.x = q.x and
\* p.y = q.y and p.z < q.z; and the relation is transitive.
C3_LexicographicLt ==
    op = "lt" =>
        /\ res = LexLess(self, args[1])
        /\ \A r \in Points : (res /\ lt(args[1], r)) => lt(self, r)

C3_Witness ==
    /\ op = "lt"
    /\ res = TRUE
    /\ self.x = args[1].x
    /\ self.y = args[1].y
    /\ \E r \in Points : lt(args[1], r)

\* C4: swapping any two arguments of direction negates its result; and
\* direction((0,0),(4,0),(0,3)) = +1, direction((0,0),(0,3),(4,0)) = -1.
C4_SwapNegatesDirection ==
    /\ (op = "direction" /\ ~panicked) =>
          LET a == args[1]
              b == args[2]
              c == args[3]
          IN  /\ direction(b, a, c) = -res
              /\ direction(a, c, b) = -res
              /\ direction(c, b, a) = -res
    /\ (op = "direction" /\ args = <<default, new(4, 0, 0), new(0, 3, 0)>>)
          => res = 1
    /\ (op = "direction" /\ args = <<default, new(0, 3, 0), new(4, 0, 0)>>)
          => res = -1

\* q is n / d truncated toward zero, stated without any division
IsTruncatedQuotient(q, n, d) ==
    /\ Abs(q) * Abs(d) <= Abs(n)
    /\ Abs(n) - Abs(q) * Abs(d) < Abs(d)
    /\ q # 0 => ((q > 0) = ((n > 0) = (d > 0)))

TruncatedQuotient(n, d) ==
    CHOOSE q \in -Abs(n) .. Abs(n) : IsTruncatedQuotient(q, n, d)

\* C5: p1 + p2, p1 - p2, p1 * k and p1 / k (k # 0) are the coordinate-wise
\* sum, difference, product and quotient truncated toward zero
\* (-100 / 3 = -33); so are p1 * 2 - p2 * 3 and p1 / 2 - p2 / 3.
C5_CoordinateWiseArithmetic ==
    /\ op = "add" =>
          /\ ~panicked
          /\ res = new(self.x + args[1].x, self.y + args[1].y,
                       self.z + args[1].z)
    /\ op = "sub" =>
          /\ ~panicked
          /\ res = new(self.x - args[1].x, self.y - args[1].y,
                       self.z - args[1].z)
          /\ sub(mul(self, 2), mul(args[1], 3))
               = new(2 * self.x - 3 * args[1].x, 2 * self.y - 3 * args[1].y,
                     2 * self.z - 3 * args[1].z)
          /\ sub(div(self, 2), div(args[1], 3))
               = new(TruncatedQuotient(self.x, 2)
                       - TruncatedQuotient(args[1].x, 3),
                     TruncatedQuotient(self.y, 2)
                       - TruncatedQuotient(args[1].y, 3),
                     TruncatedQuotient(self.z, 2)
                       - TruncatedQuotient(args[1].z, 3))
    /\ op = "mul" =>
          /\ ~panicked
          /\ res = new(self.x * k, self.y * k, self.z * k)
    /\ (op = "div" /\ k # 0) =>
          /\ ~panicked
          /\ IsTruncatedQuotient(res.x, self.x, k)
          /\ IsTruncatedQuotient(res.y, self.y, k)
          /\ IsTruncatedQuotient(res.z, self.z, k)
    /\ (op = "div" /\ k = 3 /\ self = TestP2) => res = new(15, -33, -18)

C5_Witness ==
    /\ op = "div"
    /\ self = TestP2
    /\ k = 3
    /\ res.y = -33

\* C6: cross(a, b) = (a.y*b.z - a.z*b.y, a.z*b.x - a.x*b.z,
\* a.x*b.y - a.y*b.x), cross(a, b) is the component-wise negation of
\* cross(b, a), and cross(a, a) is the origin.
C6_CrossAntiCommutative ==
    (op = "cross" /\ ~panicked) =>
        LET a == args[1]
            b == args[2]
            r == cross(b, a)
        IN  /\ res = new(a.y * b.z - a.z * b.y, a.z * b.x - a.x * b.z,
                         a.x * b.y - a.y * b.x)
            /\ res = new(-r.x, -r.y, -r.z)
            /\ cross(a, a) = default

C6_Witness ==
    /\ op = "cross"
    /\ ~panicked
    /\ res.x # 0
    /\ res.y # 0
    /\ res.z # 0

\* C7 as stated: area_of_polygon returns 0.0 for every sequence of fewer
\* than 3 points, any coordinates, without panicking, and 1.0 for the unit
\* square.
C7_FewPointsAnyCoordinates ==
    /\ (op = "area_of_polygon" /\ Len(args) < 3)
          => (~panicked /\ F64Eq(res, F64Zero))
    /\ (op = "area_of_polygon" /\ args = UnitSquare)
          => (~panicked /\ F64Eq(res, F64One))

\* C7 amended: area_of_polygon returns 0.0, without panicking, for every
\* sequence of fewer than 3 integer points in which no shoelace term
\* (x[i+1] - x[i], y[i+1] + y[i], or their product) overflows the scalar
\* type; and it returns 1.0 for the unit square.
C7_FewPointsWithoutOverflow ==
    /\ (op = "area_of_polygon" /\ Len(args) < 3 /\ ~area_of_polygonOvf(args))
          => (~panicked /\ F64Eq(res, F64Zero))
    /\ (op = "area_of_polygon" /\ args = UnitSquare)
          => (~panicked /\ F64Eq(res, F64One))

C7_Witness ==
    /\ op = "area_of_polygon"
    /\ Len(args) = 2
    /\ args[1].x # args[2].x
    /\ args[1].y + args[2].y # 0
    /\ ~panicked
    /\ F64Eq(res, F64Zero)

\* C8: dividing a point by the scalar zero with / or /= always panics and
\* yields no result; when p /= 0 panics, p keeps the coordinates it had.
C8_DivisionByZeroTraps ==
    [][(op = "none" /\ op' \in {"div", "div_assign"} /\ k' = 0)
          => (panicked' /\ res' = NoValue /\ self' = self)]_vars

C8_Witness ==
    /\ op = "div_assign"
    /\ k = 0
    /\ panicked
    /\ self # default

\* C9: the assertion !(self < other) of partial_cmp never fails:
\* partial_cmp never panics, always returns Some(ordering), and returns
\* Greater only when self is neither equal to nor less than other.
C9_PartialCmpAssertionHolds ==
    op = "partial_cmp" =>
        /\ ~panicked
        /\ res \in {"Less", "Equal", "Greater"}
        /\ res = "Greater" => (~eq(self, args[1]) /\ ~lt(self, args[1]))

C9_Witness ==
    /\ op = "partial_cmp"
    /\ ~panicked
    /\ res = "Greater"

\* the f64 that is half of the absolute value of the integer n
HalfOfAbs(n) == F64(FALSE, Abs(n) \div 65536, Abs(n) % 65536)

\* p with its z coordinate replaced by 0
Flat(p) == new(p.x, p.y, 0)

TwiceTriangle(a, b, c) ==
    (b.x - a.x) * (c.y - a.y) - (b.y - a.y) * (c.x - a.x)

=============================================================================
